---------------------------- MODULE Spec2Model ----------------------------
(***************************************************************************)
(* Model of atomic14/esp32-usb-uac-experiments.                            *)
(*                                                                         *)
(*  mode A  serial-mic/src/main.cpp : i2s_reader_task (capture, DC filter, *)
(*          framing, malloc, xQueueSend) and loop() (xQueueReceive,        *)
(*          Serial.write, free).                                           *)
(*  mode B  usb-audio/main/main.c   : the UAC callbacks (output, set_mute, *)
(*          set_volume).                                                   *)
(*                                                                         *)
(* TLC integers are 32 bits wide, so a uint32_t is kept as two 16-bit      *)
(* halves [lo, hi]; every other quantity of the code fits an int.          *)
(***************************************************************************)
EXTENDS Integers, Sequences, FiniteSets, TLC

VARIABLES
    \* ---- mode A: the run's environment
    feed,          \* the blocks i2s_read can deliver in this run
    limit,         \* how many blocks the run captures
    fail_budget,   \* how many malloc calls may still fail in this run
    \* ---- mode A: i2s_reader_task
    cap_pc,        \* "read" | "alloc" | "send" | "panic"
    err,           \* esp_err_t err of the last i2s_read
    bytes_read,    \* size_t bytes_read of the last i2s_read
    sample_buf,    \* the first samples_read entries of sample_buf
    dc_est,        \* Q15 running DC estimate
    seq,           \* static uint32_t seq, as [lo, hi]
    timer,         \* (uint32_t)esp_timer_get_time(), as [lo, hi]
    tx_buf,        \* the bytes framed into tx_buf
    total_len,     \* const size_t total_len
    pkt,           \* the task's tx_packet_t pkt
    \* ---- mode A: shared
    tx_queue,      \* the FreeRTOS queue of tx_packet_t
    heap,          \* malloc'ed buffers: address -> bytes
    \* ---- mode A: loop()
    loop_pc,       \* "receive" | "write" | "free"
    loop_pkt,      \* loop()'s tx_packet_t pkt
    serial_out,    \* what Serial.write has been given, in order
    \* ---- mode A: history
    cycles,        \* blocks read successfully
    mallocs,       \* malloc calls that returned a buffer
    framed,        \* what was framed so far: seq, now, samples, bytes
    dropped,       \* seq values whose packet was dropped (malloc failed)
    pushed,        \* packets xQueueSend completed, in order
    \* ---- mode B: GainState and the output callback
    is_muted,
    volume_factor,
    hoist,         \* whether the build reads GainState once per callback
    out_pc,        \* "idle" | "scale" | "write"
    buf,           \* the host's buffer, as bytes
    len,           \* size_t len
    idx,           \* size_t i of the sample loop
    total_bytes_written,
    mute_seen,     \* is_muted as loaded before the loop (hoisting build)
    factor_seen,   \* volume_factor as loaded before the loop
    \* ---- mode B: history
    host_buf,      \* the buffer as the host delivered it
    rendered,      \* bytes i2s_channel_write accepted during this callback
    offer,         \* the (offset, size) of the last i2s_channel_write call
    trace,         \* per processed sample: what was read and written
    ret,           \* the last return value of the output callback
    \* ---- mode B: the input callback and the handlers' history
    rx,            \* static i2s_chan_handle_t rx
    in_ret,        \* the last return value of the input callback
    written,       \* the mute and gain values handler calls have stored
    \* ---- dc_block_and_copy on its own
    probes,        \* how many probe blocks the run may still filter
    filt           \* the last call: its block, the estimate before it

varsA == <<feed, limit, fail_budget, cap_pc, err, bytes_read, sample_buf,
           dc_est, seq, timer, tx_buf, total_len, pkt, tx_queue, heap,
           loop_pc, loop_pkt, serial_out, cycles, mallocs, framed, dropped,
           pushed>>
varsB == <<is_muted, volume_factor, hoist, out_pc, buf, len, idx,
           total_bytes_written, mute_seen, factor_seen, host_buf, rendered,
           offer, trace, ret>>
varsC == <<rx, in_ret, written, probes, filt>>
vars == <<varsA, varsB, varsC>>

----------------------------------------------------------------------------
(* Program constants, serial-mic/src/main.cpp                              *)

SAMPLE_RATE == 16000
SAMPLE_BUFFER_SIZE == 1024
LERP_SHIFT == 10
PKT_SYNC == 166
PKT_HEADER_LEN == 1 + 2 + 4 + 4
PKT_TRAILER_LEN == 2
QUEUE_LENGTH == 16
CRC_INIT == 65535
CRC_POLY == 4129

\* a NULL pointer; malloc'ed addresses are 1, 2, ...
NULL == 0

----------------------------------------------------------------------------
(* Fixed-width arithmetic                                                  *)

\* a uint32_t as two 16-bit halves
U32(hi, lo) == [lo |-> lo, hi |-> hi]

\* v + d for 0 <= d < 2^16, mod 2^32
Add32(v, d) ==
    LET s == v.lo + d
    IN  U32((v.hi + (s \div 65536)) % 65536, s % 65536)

\* C integer division truncates toward zero
TruncDiv(a, n) == IF a >= 0 THEN a \div n ELSE -((-a) \div n)

\* a ^ b bit by bit, on non-negative integers
RECURSIVE BitXorBits(_, _)
BitXorBits(a, b) ==
    IF a = 0 THEN b
    ELSE IF b = 0 THEN a
    ELSE ((a + b) % 2) + 2 * BitXorBits(a \div 2, b \div 2)

\* the same on 4-bit digits, tabulated once
XorNibble == [a \in 0..15 |-> [b \in 0..15 |-> BitXorBits(a, b)]]

\* a ^ b on 16-bit values
BitXor(a, b) ==
    XorNibble[a % 16][b % 16]
    + 16 * XorNibble[(a \div 16) % 16][(b \div 16) % 16]
    + 256 * XorNibble[(a \div 256) % 16][(b \div 256) % 16]
    + 4096 * XorNibble[(a \div 4096) % 16][(b \div 4096) % 16]

----------------------------------------------------------------------------
(* sat16 and dc_block_and_copy                                             *)

sat16(v) == IF v > 32767 THEN 32767 ELSE IF v < -32768 THEN -32768 ELSE v

RECURSIVE SumRange(_, _, _)
SumRange(a, lo, hi) ==
    IF lo > hi THEN 0
    ELSE IF lo = hi THEN a[lo]
    ELSE SumRange(a, lo, (lo + hi) \div 2)
         + SumRange(a, ((lo + hi) \div 2) + 1, hi)

\* sum / n of line 78; with n = 0 the division is undefined and q0 stands
\* for whatever the build yields
BlockMean(a, q0) ==
    IF Len(a) = 0 THEN q0 ELSE TruncDiv(SumRange(a, 1, Len(a)), Len(a))

\* int32_t mean_q15 = (int32_t)((sum / n) << 15)
MeanQ15(mean) == mean * 2^15

\* the difference taken the other way round
MeanDiffReversed(dc, mean) == dc - mean * 2^15

\* mean_q15 - dc_est
MeanDiff(dc, mean) == MeanQ15(mean) - dc

\* an estimate that jumps to the block mean
SlewDcNoShift(dc, mean) == dc + MeanDiff(dc, mean)

\* an estimate that is never updated
SlewDcFrozen(dc, mean) == dc

\* dc_est += ((mean_q15 - dc_est) >> LERP_SHIFT)
SlewDc(dc, mean) == dc + (MeanDiff(dc, mean) \div 2^LERP_SHIFT)

\* y + (1<<14) for int32_t y = ((int32_t)a[i] << 15) - dc_est
Biased(s, dc) == s * 2^15 - dc + 2^14

\* a[i] = sat16((y + (1<<14)) >> 15)
RemoveDc(s, dc) == sat16(Biased(s, dc) \div 2^15)

dc_block_and_copy(a, dc, q0) ==
    LET nd == SlewDc(dc, BlockMean(a, q0))
    IN  [dc_est |-> nd, a |-> [i \in 1..Len(a) |-> RemoveDc(a[i], nd)]]

\* one call as seen from outside: the block and estimate it was given and
\* the intermediate values it computed
FilterCall(a, dc, q0) ==
    LET mean == BlockMean(a, q0)
        nd   == SlewDc(dc, mean)
    IN  [a    |-> a,
         dc   |-> dc,
         diff |-> MeanDiff(dc, mean),
         ys   |-> {Biased(a[i], nd) : i \in 1..Len(a)}]

----------------------------------------------------------------------------
(* crc16_ccitt, le_write16, le_write32 and the framing of lines 153..178   *)

CrcShift(crc) ==
    IF crc >= 32768
    THEN BitXor((crc * 2) % 65536, CRC_POLY)
    ELSE (crc * 2) % 65536

RECURSIVE CrcBits(_, _)
CrcBits(crc, b) == IF b = 0 THEN crc ELSE CrcBits(CrcShift(crc), b - 1)

CrcByte(crc, byte) == CrcBits(BitXor(crc, byte * 256), 8)

RECURSIVE CrcRange(_, _, _, _)
CrcRange(crc, data, lo, hi) ==
    IF lo > hi THEN crc
    ELSE IF lo = hi THEN CrcByte(crc, data[lo])
    ELSE LET left == CrcRange(crc, data, lo, (lo + hi) \div 2)
         IN  \* the test has TLC evaluate the left half before the right
             IF left >= 0
             THEN CrcRange(left, data, ((lo + hi) \div 2) + 1, hi)
             ELSE left

\* a CRC that starts from 0
crc16_zero_init(data, n) == CrcRange(0, data, 1, n)

crc16_ccitt(data, n) == CrcRange(CRC_INIT, data, 1, n)

le_write16(v) == <<v % 256, (v \div 256) % 256>>

\* a big-endian write
be_write32(v) ==
    <<(v.hi \div 256) % 256, v.hi % 256, (v.lo \div 256) % 256, v.lo % 256>>

le_write32(v) ==
    <<v.lo % 256, (v.lo \div 256) % 256, v.hi % 256, (v.hi \div 256) % 256>>

\* int samples_read = (int)(bytes_read / sizeof(int16_t))
SamplesRead(nbytes) == nbytes \div 2

\* a length field that counts samples, not bytes
PayloadLenInSamples(this_samples) == this_samples % 65536

\* const uint16_t payload_len = (uint16_t)(this_samples * 2)
PayloadLen(this_samples) == (this_samples * 2) % 65536

\* the payload loop of lines 164..168: low byte, then high byte
PayloadBytes(a) ==
    [k \in 1..(2 * Len(a)) |->
        LET s == a[(k + 1) \div 2]
        IN  IF k % 2 = 1 THEN s % 256 ELSE (s \div 256) % 256]

FrameHeader(payload_len, seqv, now) ==
    <<PKT_SYNC>> \o le_write16(payload_len) \o le_write32(seqv)
                 \o le_write32(now)

FramePacket(a, seqv, now) ==
    LET payload_len == PayloadLen(Len(a))
        body == FrameHeader(payload_len, seqv, now) \o PayloadBytes(a)
        crc  == crc16_ccitt(body, PKT_HEADER_LEN + payload_len)
    IN  body \o le_write16(crc)

\* const size_t total_len = PKT_HEADER_LEN + payload_len + PKT_TRAILER_LEN
TotalLen(payload_len) == PKT_HEADER_LEN + payload_len + PKT_TRAILER_LEN

\* a seq that is never incremented
NextSeqStuck(s) == s

\* seq++
NextSeq(s) == Add32(s, 1)

\* the microseconds one full block takes at SAMPLE_RATE
BlockUs == (SAMPLE_BUFFER_SIZE * 1000000) \div SAMPLE_RATE

----------------------------------------------------------------------------
(* The environment of mode A                                               *)

\* what one successful i2s_read delivers: bytes_read and the whole samples
Blk(n, smp) == [bytes |-> n, data |-> smp]

SampleVals == {-32768, -1, 1000}

\* reads of 1, 2 and 3 bytes: no sample, one sample, one sample and a half
SmallBlocks ==
    {Blk(1, <<>>)} \cup {Blk(n, <<s>>) : n \in {2, 3}, s \in SampleVals}

\* a full read: SAMPLE_BUFFER_SIZE samples, all 1000
FullBlock ==
    Blk(SAMPLE_BUFFER_SIZE * 2, [i \in 1..SAMPLE_BUFFER_SIZE |-> 1000])

\* sum / n with n = 0 (line 78) is undefined: the build traps, or goes on
\* with some quotient
DivZeroQuotients == {0, -1}

TimerStarts == {U32(0, 12345), U32(65535, 65535)}

----------------------------------------------------------------------------
(* The FreeRTOS queue                                                      *)

\* a send that does not wait for room
QueueNeverFull(q) == TRUE

\* a queue with room for one item more
QueueHasRoomOneMore(q) == Len(q) <= QUEUE_LENGTH

\* xQueueSend(tx_queue, &pkt, portMAX_DELAY) returns once there is room
QueueHasRoom(q) == Len(q) < QUEUE_LENGTH

\* a receive that takes the newest item
QueueReceiveNewest(q) ==
    [item |-> q[Len(q)], rest |-> SubSeq(q, 1, Len(q) - 1)]

\* xQueueReceive(tx_queue, &pkt, portMAX_DELAY) takes the oldest item
QueueReceive(q) == [item |-> Head(q), rest |-> Tail(q)]

\* a loop that releases the packet without writing it
SerialWriteNothing(out, p, mem) == out

\* Serial.write(pkt.data, pkt.length): the bytes handed to the transport
SerialWrite(out, p, mem) ==
    Append(out, [data |-> p.data, bytes |-> SubSeq(mem[p.data], 1, p.length)])

\* a loop that forgets the release
FreeNothing(mem, addr) == mem

\* free(pkt.data)
Free(mem, addr) == [a \in (DOMAIN mem) \ {addr} |-> mem[a]]

----------------------------------------------------------------------------
(* i2s_reader_task                                                         *)

\* a failed read that still uses up a sequence number
ReadFailSkipsSeq ==
    /\ cap_pc = "read"
    /\ err' = "ESP_FAIL"
    /\ bytes_read' = 0
    /\ seq' = NextSeq(seq)
    /\ UNCHANGED <<feed, limit, fail_budget, cap_pc, sample_buf, dc_est,
                   timer, tx_buf, total_len, pkt, tx_queue, heap, loop_pc,
                   loop_pkt, serial_out, cycles, mallocs, framed, dropped,
                   pushed>>
    /\ UNCHANGED <<varsB, varsC>>

\* i2s_read fails, or reads nothing: continue (lines 143..146)
ReadFail ==
    /\ cap_pc = "read"
    /\ \E e \in {"ESP_OK", "ESP_FAIL"} :
          /\ err' = e
          /\ bytes_read' = 0
    /\ UNCHANGED <<feed, limit, fail_budget, cap_pc, sample_buf, dc_est, seq,
                   timer, tx_buf, total_len, pkt, tx_queue, heap, loop_pc,
                   loop_pkt, serial_out, cycles, mallocs, framed, dropped,
                   pushed>>
    /\ UNCHANGED <<varsB, varsC>>

\* i2s_read succeeds; the block is filtered and framed into tx_buf
\* (lines 147..178)
ReadFrame ==
    /\ cap_pc = "read"
    /\ cycles < limit
    /\ \E blk \in feed :
        \E q0 \in (IF SamplesRead(blk.bytes) = 0 THEN DivZeroQuotients ELSE {0}) :
          LET samples_read == SamplesRead(blk.bytes)
              f == dc_block_and_copy(SubSeq(blk.data, 1, samples_read),
                                     dc_est, q0)
              payload_len == PayloadLen(samples_read)
          IN  /\ err' = "ESP_OK"
              /\ bytes_read' = blk.bytes
              /\ sample_buf' = f.a
              /\ dc_est' = f.dc_est
              /\ filt' = FilterCall(SubSeq(blk.data, 1, samples_read),
                                    dc_est, q0)
              /\ tx_buf' = FramePacket(f.a, seq, timer)
              /\ framed' = Append(framed,
                     [seq |-> seq, now |-> timer, samples |-> f.a,
                      bytes |-> tx_buf'])
              /\ seq' = NextSeq(seq)
              /\ timer' = Add32(timer, BlockUs)
              /\ total_len' = TotalLen(payload_len)
    /\ cycles' = cycles + 1
    /\ cap_pc' = "alloc"
    /\ UNCHANGED <<feed, limit, fail_budget, pkt, tx_queue, heap, loop_pc,
                   loop_pkt, serial_out, mallocs, dropped, pushed>>
    /\ UNCHANGED <<rx, in_ret, written, probes>>
    /\ UNCHANGED varsB

\* i2s_read delivers less than one sample and sum / 0 traps: the task ends
ReadTrap ==
    /\ cap_pc = "read"
    /\ cycles < limit
    /\ \E blk \in feed :
          /\ SamplesRead(blk.bytes) = 0
          /\ err' = "ESP_OK"
          /\ bytes_read' = blk.bytes
    /\ cycles' = cycles + 1
    /\ cap_pc' = "panic"
    /\ UNCHANGED <<feed, limit, fail_budget, sample_buf, dc_est, seq, timer,
                   tx_buf, total_len, pkt, tx_queue, heap, loop_pc, loop_pkt,
                   serial_out, mallocs, framed, dropped, pushed>>
    /\ UNCHANGED <<varsB, varsC>>

\* an allocation failure that ends the task
AllocFailStops ==
    /\ cap_pc = "alloc"
    /\ fail_budget > 0
    /\ fail_budget' = fail_budget - 1
    /\ pkt' = [data |-> NULL, length |-> pkt.length]
    /\ cap_pc' = "panic"
    /\ UNCHANGED <<feed, limit, err, bytes_read, sample_buf, dc_est, seq,
                   timer, tx_buf, total_len, tx_queue, heap, loop_pc, loop_pkt,
                   serial_out, cycles, mallocs, framed, dropped, pushed>>
    /\ UNCHANGED <<varsB, varsC>>

\* malloc returns NULL: the packet is dropped (lines 180..184)
AllocFail ==
    /\ cap_pc = "alloc"
    /\ fail_budget > 0
    /\ fail_budget' = fail_budget - 1
    /\ pkt' = [data |-> NULL, length |-> pkt.length]
    /\ dropped' = dropped \cup {framed[Len(framed)].seq}
    /\ cap_pc' = "read"
    /\ UNCHANGED <<feed, limit, err, bytes_read, sample_buf, dc_est, seq,
                   timer, tx_buf, total_len, tx_queue, heap, loop_pc, loop_pkt,
                   serial_out, cycles, mallocs, framed, pushed>>
    /\ UNCHANGED <<varsB, varsC>>

\* malloc returns a buffer; tx_buf is copied into it (lines 180..186)
AllocOk ==
    /\ cap_pc = "alloc"
    /\ LET addr == mallocs + 1
       IN  /\ heap' = (addr :> SubSeq(tx_buf, 1, total_len)) @@ heap
           /\ pkt' = [data |-> addr, length |-> total_len]
    /\ mallocs' = mallocs + 1
    /\ cap_pc' = "send"
    /\ UNCHANGED <<feed, limit, fail_budget, err, bytes_read, sample_buf,
                   dc_est, seq, timer, tx_buf, total_len, tx_queue, loop_pc,
                   loop_pkt, serial_out, cycles, framed, dropped, pushed>>
    /\ UNCHANGED <<varsB, varsC>>

\* xQueueSend(tx_queue, &pkt, portMAX_DELAY) (line 187)
QueueSend ==
    /\ cap_pc = "send"
    /\ QueueHasRoom(tx_queue)
    /\ tx_queue' = Append(tx_queue, pkt)
    /\ pushed' = Append(pushed, [data |-> pkt.data, frame |-> Len(framed)])
    /\ cap_pc' = "read"
    /\ UNCHANGED <<feed, limit, fail_budget, err, bytes_read, sample_buf,
                   dc_est, seq, timer, tx_buf, total_len, pkt, heap, loop_pc,
                   loop_pkt, serial_out, cycles, mallocs, framed, dropped>>
    /\ UNCHANGED <<varsB, varsC>>

----------------------------------------------------------------------------
(* loop()                                                                  *)

\* xQueueReceive(tx_queue, &pkt, portMAX_DELAY) == pdPASS (line 219)
LoopReceive ==
    /\ loop_pc = "receive"
    /\ tx_queue # <<>>
    /\ LET r == QueueReceive(tx_queue)
       IN  /\ loop_pkt' = r.item
           /\ tx_queue' = r.rest
    /\ loop_pc' = "write"
    /\ UNCHANGED <<feed, limit, fail_budget, cap_pc, err, bytes_read,
                   sample_buf, dc_est, seq, timer, tx_buf, total_len, pkt,
                   heap, serial_out, cycles, mallocs, framed, dropped, pushed>>
    /\ UNCHANGED <<varsB, varsC>>

\* Serial.write(pkt.data, pkt.length) (line 220)
LoopWrite ==
    /\ loop_pc = "write"
    /\ serial_out' = SerialWrite(serial_out, loop_pkt, heap)
    /\ loop_pc' = "free"
    /\ UNCHANGED <<feed, limit, fail_budget, cap_pc, err, bytes_read,
                   sample_buf, dc_est, seq, timer, tx_buf, total_len, pkt,
                   tx_queue, heap, loop_pkt, cycles, mallocs, framed, dropped,
                   pushed>>
    /\ UNCHANGED <<varsB, varsC>>

\* free(pkt.data) (line 221)
LoopFree ==
    /\ loop_pc = "free"
    /\ heap' = Free(heap, loop_pkt.data)
    /\ loop_pc' = "receive"
    /\ UNCHANGED <<feed, limit, fail_budget, cap_pc, err, bytes_read,
                   sample_buf, dc_est, seq, timer, tx_buf, total_len, pkt,
                   tx_queue, loop_pkt, serial_out, cycles, mallocs, framed,
                   dropped, pushed>>
    /\ UNCHANGED <<varsB, varsC>>

Loop == LoopReceive \/ LoopWrite \/ LoopFree

----------------------------------------------------------------------------
(* dc_block_and_copy applied to one block after another, without the       *)
(* framing: a run filters its feed block again and again and may end with  *)
(* a few probe blocks                                                      *)

DcBlockLen == 2
MaxDcBlocks == 16385
MaxProbes == 1

\* a block whose samples all equal c
ConstBlock(c) == Blk(2 * DcBlockLen, [i \in 1..DcBlockLen |-> c])

\* the constant offsets of the runs
DcOffsets == {-32768, -1, 1000, 32767}

\* blocks of sum 0, and the two extreme blocks
ProbeBlocks ==
    {Blk(4, <<1000, -1000>>), Blk(6, <<-32768, 32767, 1>>),
     ConstBlock(32767), ConstBlock(-32768)}

\* dc_block_and_copy(sample_buf, samples_read) (line 150)
Filter(blk) ==
    LET samples_read == SamplesRead(blk.bytes)
        a == SubSeq(blk.data, 1, samples_read)
        f == dc_block_and_copy(a, dc_est, 0)
    IN  /\ bytes_read' = blk.bytes
        /\ sample_buf' = f.a
        /\ dc_est' = f.dc_est
        /\ filt' = FilterCall(a, dc_est, 0)
        /\ cycles' = cycles + 1
        /\ UNCHANGED <<feed, limit, fail_budget, cap_pc, err, seq, timer,
                       tx_buf, total_len, pkt, tx_queue, heap, loop_pc,
                       loop_pkt, serial_out, mallocs, framed, dropped,
                       pushed>>
        /\ UNCHANGED <<rx, in_ret, written>>
        /\ UNCHANGED varsB

\* the next block of the feed
FilterFeed ==
    /\ cycles < limit
    /\ probes = MaxProbes
    /\ \E blk \in feed : Filter(blk)
    /\ UNCHANGED probes

\* a probe block; the feed does not resume after it
FilterProbe ==
    /\ probes > 0
    /\ probes' = probes - 1
    /\ \E blk \in ProbeBlocks : Filter(blk)

----------------------------------------------------------------------------
(* Mode B, usb-audio/main/main.c: uint32_t arithmetic on 16-bit halves     *)

\* (uint32_t)s for an int32_t s of 16-bit magnitude
ToU32(s) == IF s >= 0 THEN U32(0, s) ELSE U32(65535, 65536 + s)

\* v * k mod 2^32, for 0 <= k < 2^15
Mul32(v, k) ==
    LET p == v.lo * k
    IN  U32((v.hi * k + (p \div 65536)) % 65536, p % 65536)

\* v / d, unsigned, for 0 < d < 2^15
Div32(v, d) ==
    U32(v.hi \div d, (((v.hi % d) * 65536) + v.lo) \div d)

\* (int32_t)v
ToInt32(v) ==
    IF v.hi >= 32768 THEN ((v.hi - 65536) * 65536) + v.lo
    ELSE (v.hi * 65536) + v.lo

\* the percent divisor of line 48
PERCENT == 100

\* lines 46..54: sample = (sample * volume_factor) / 100 is computed in
\* uint32_t (int32_t * uint32_t converts the sample), then clamped
ScaleSample(s, factor) ==
    LET sample == ToInt32(Div32(Mul32(ToU32(s), factor), PERCENT))
    IN  IF sample > 32767 THEN 32767
        ELSE IF sample < -32768 THEN -32768
        ELSE sample

\* (uint32_t)(pow(10, volume_db / 20.0f) * 100.0f) for volume_db = -50..0
PowPercent ==
    <<0, 0, 0, 0, 0, 0, 0, 0, 0, 0, 1, 1, 1, 1, 1, 1, 1, 2, 2, 2, 3, 3, 3,
      4, 5, 5, 6, 7, 7, 8, 10, 11, 12, 14, 15, 17, 19, 22, 25, 28, 31, 35,
      39, 44, 50, 56, 63, 70, 79, 89, 100>>

\* lines 81..82: int volume_db = _volume / 2 - 50, then the factor
VolumeDb(hostUnits) == (hostUnits \div 2) - 50

VolumeFactor(hostUnits) == PowPercent[VolumeDb(hostUnits) + 51]

\* is_muted = mute: uint32_t to bool
MuteFlag(mute) == mute # 0

\* a handler that scales in place: the factor is stored before the percent
\* scaling and again after it
VolumeStoresInPlace(hostUnits) ==
    {VolumeFactor(hostUnits) \div PERCENT, VolumeFactor(hostUnits)}

\* what volume_factor holds from the store of line 82 on: the right-hand
\* side is evaluated in registers and stored with one aligned word store
VolumeStores(hostUnits) == {VolumeFactor(hostUnits)}

\* what is_muted holds from the store of line 75 on: one byte store
MuteStores(mute) == {MuteFlag(mute)}

\* int16_t samples[i] of a little-endian byte buffer, i from 0
SampleAt(b, i) ==
    LET u == b[2 * i + 1] + 256 * b[2 * i + 2]
    IN  IF u >= 32768 THEN u - 65536 ELSE u

\* samples[i] = v
StoreSample(b, i, v) ==
    [b EXCEPT ![2 * i + 1] = v % 256, ![2 * i + 2] = (v \div 256) % 256]

\* the count of the sample loop: len / 2
SampleCount(n) == n \div 2

\* an offer of len bytes whatever was already written
WriteOfferWhole(n, total) == [offset |-> total, size |-> n]

\* what is offered to i2s_channel_write: buf + total_bytes_written and
\* len - total_bytes_written (line 59)
WriteOffer(n, total) == [offset |-> total, size |-> n - total]

----------------------------------------------------------------------------
(* The host of mode B                                                      *)

MaxBufBytes == 4

BridgeSamples == {-32768, -1, 3}

HostVolumes == {0, 88, 100}

RECURSIVE SampleSeqs(_)
SampleSeqs(n) ==
    IF n = 0 THEN {<<>>}
    ELSE {Append(q, s) : q \in SampleSeqs(n - 1), s \in BridgeSamples}

\* the bytes of whole samples, and one more byte when the length is odd
HostBuffersOf(n) ==
    {PayloadBytes(q) \o (IF n % 2 = 1 THEN <<7>> ELSE <<>>) :
        q \in SampleSeqs(n \div 2)}

HostBuffers == UNION {HostBuffersOf(n) : n \in 0..MaxBufBytes}

----------------------------------------------------------------------------
(* usb_uac_device_output_cb; tx is set before the callbacks are            *)
(* registered (init_pcm_tx aborts otherwise), so line 37 never returns     *)

\* the host hands over a buffer; a build that keeps GainState in registers
\* loads it here
OutputBegin ==
    /\ out_pc = "idle"
    /\ \E b \in HostBuffers :
          /\ buf' = b
          /\ host_buf' = b
          /\ len' = Len(b)
          /\ out_pc' = IF SampleCount(Len(b)) = 0 THEN "write" ELSE "scale"
    /\ idx' = 0
    /\ total_bytes_written' = 0
    /\ mute_seen' = is_muted
    /\ factor_seen' = volume_factor
    /\ rendered' = <<>>
    /\ offer' = [offset |-> 0, size |-> 0]
    /\ trace' = <<>>
    /\ ret' = "none"
    /\ UNCHANGED <<is_muted, volume_factor, hoist>>
    /\ UNCHANGED <<varsA, varsC>>

\* one pass of the sample loop (lines 41..55)
ScaleStep ==
    /\ out_pc = "scale"
    /\ idx < SampleCount(len)
    /\ LET muted  == IF hoist THEN mute_seen ELSE is_muted
           factor == IF hoist THEN factor_seen ELSE volume_factor
           s      == SampleAt(buf, idx)
           o      == IF muted THEN 0 ELSE ScaleSample(s, factor)
       IN  /\ buf' = StoreSample(buf, idx, o)
           /\ trace' = Append(trace, [in |-> s, out |-> o, muted |-> muted,
                                      factor |-> factor, flag |-> is_muted,
                                      gain |-> volume_factor])
    /\ idx' = idx + 1
    /\ out_pc' = IF idx + 1 = SampleCount(len) THEN "write" ELSE "scale"
    /\ UNCHANGED <<is_muted, volume_factor, hoist, len, total_bytes_written,
                   mute_seen, factor_seen, host_buf, rendered, offer, ret>>
    /\ UNCHANGED <<varsA, varsC>>

\* the n bytes at b + offset; -1 stands for a byte past the buffer's end
ReadBytes(b, offset, n) ==
    [k \in 1..n |-> IF offset + k <= Len(b) THEN b[offset + k] ELSE -1]

\* one i2s_channel_write: it accepts 0..size bytes (0 when it fails)
ChannelWrite ==
    /\ out_pc = "write"
    /\ total_bytes_written < len
    /\ LET o == WriteOffer(len, total_bytes_written)
       IN  /\ offer' = o
           /\ \E bytes_written \in 0..o.size :
                 /\ rendered' = rendered \o
                        ReadBytes(buf, o.offset, bytes_written)
                 /\ total_bytes_written' = total_bytes_written + bytes_written
    /\ UNCHANGED <<is_muted, volume_factor, hoist, out_pc, buf, len, idx,
                   mute_seen, factor_seen, host_buf, trace, ret>>
    /\ UNCHANGED <<varsA, varsC>>

\* return ESP_OK (line 62)
OutputReturn ==
    /\ out_pc = "write"
    /\ ~(total_bytes_written < len)
    /\ ret' = "ESP_OK"
    /\ out_pc' = "idle"
    /\ UNCHANGED <<is_muted, volume_factor, hoist, buf, len, idx,
                   total_bytes_written, mute_seen, factor_seen, host_buf,
                   rendered, offer, trace>>
    /\ UNCHANGED <<varsA, varsC>>

\* usb_uac_device_set_mute_cb
SetMute ==
    /\ \E mute \in {0, 1} :
          /\ is_muted' \in MuteStores(mute)
          /\ written' = [written EXCEPT !.mute = @ \cup {MuteFlag(mute)}]
    /\ UNCHANGED <<volume_factor, hoist, out_pc, buf, len, idx,
                   total_bytes_written, mute_seen, factor_seen, host_buf,
                   rendered, offer, trace, ret>>
    /\ UNCHANGED <<rx, in_ret, probes, filt>>
    /\ UNCHANGED varsA

\* usb_uac_device_set_volume_cb
SetVolume ==
    /\ \E hostUnits \in HostVolumes :
          /\ volume_factor' \in VolumeStores(hostUnits)
          /\ written' = [written EXCEPT
                             !.gain = @ \cup {VolumeFactor(hostUnits)}]
    /\ UNCHANGED <<is_muted, hoist, out_pc, buf, len, idx,
                   total_bytes_written, mute_seen, factor_seen, host_buf,
                   rendered, offer, trace, ret>>
    /\ UNCHANGED <<rx, in_ret, probes, filt>>
    /\ UNCHANGED varsA

\* a non-NULL handle
ChannelHandle == NULL + 1

\* what i2s_channel_read can return
ChannelReadResults == {"ESP_OK", "ESP_ERR_TIMEOUT"}

\* usb_uac_device_input_cb (lines 65..71): ESP_FAIL without a channel,
\* otherwise whatever i2s_channel_read returns
InputCb ==
    /\ \E r \in ChannelReadResults :
          in_ret' = IF rx = NULL THEN "ESP_FAIL" ELSE r
    /\ UNCHANGED <<rx, written, probes, filt>>
    /\ UNCHANGED <<varsA, varsB>>

----------------------------------------------------------------------------
(* Mode B at rest (usb-audio/main/main.c, lines 30..33)                    *)

InitB ==
    /\ is_muted = FALSE
    /\ volume_factor = 100
    /\ out_pc = "idle"
    /\ buf = <<>>
    /\ len = 0
    /\ idx = 0
    /\ total_bytes_written = 0
    /\ mute_seen = FALSE
    /\ factor_seen = 100
    /\ host_buf = <<>>
    /\ rendered = <<>>
    /\ offer = [offset |-> 0, size |-> 0]
    /\ trace = <<>>
    /\ ret = "none"
    /\ in_ret = "none"
    /\ written = [mute |-> {FALSE}, gain |-> {100}]

----------------------------------------------------------------------------
(* Mode A: the state after setup()                                         *)

MaxBlocks == 19
MaxAllocFails == 1
MaxFrameBlocks == 2

InitA ==
    /\ cap_pc = "read"
    /\ err = "ESP_OK"
    /\ bytes_read = 0
    /\ sample_buf = <<>>
    /\ dc_est = 0
    /\ seq = U32(0, 0)
    /\ tx_buf = <<>>
    /\ total_len = 0
    /\ pkt = [data |-> NULL, length |-> 0]
    /\ tx_queue = <<>>
    /\ heap = <<>>
    /\ loop_pc = "receive"
    /\ loop_pkt = [data |-> NULL, length |-> 0]
    /\ serial_out = <<>>
    /\ cycles = 0
    /\ mallocs = 0
    /\ framed = <<>>
    /\ dropped = {}
    /\ pushed = <<>>
    /\ filt = [a |-> <<>>, dc |-> 0, diff |-> 0, ys |-> {}]

NextA ==
    \/ ReadFail
    \/ ReadFrame
    \/ ReadTrap
    \/ AllocFail
    \/ AllocOk
    \/ QueueSend
    \/ LoopReceive
    \/ LoopWrite
    \/ LoopFree

\* long runs of one kind of block: the queue fills
Init ==
    /\ InitA
    /\ InitB
    /\ hoist = FALSE
    /\ \/ feed = {Blk(3, <<1000>>)} /\ limit = MaxBlocks
       \/ feed = {Blk(1, <<>>)} /\ limit = MaxFrameBlocks
    /\ fail_budget = MaxAllocFails
    /\ timer = U32(0, 12345)
    /\ rx = ChannelHandle
    /\ probes = 0

Spec == Init /\ [][NextA]_vars

\* short runs over every kind of block
FrameInit ==
    /\ InitA
    /\ InitB
    /\ hoist = FALSE
    /\ feed \in {SmallBlocks, {FullBlock}}
    /\ limit = MaxFrameBlocks
    /\ fail_budget = MaxAllocFails
    /\ timer \in TimerStarts
    /\ rx = ChannelHandle
    /\ probes = 0

FrameSpec == FrameInit /\ [][NextA]_vars

\* loop() is called again and again by the Arduino loop task
FairSpec == Init /\ [][NextA]_vars /\ WF_vars(Loop)

----------------------------------------------------------------------------
(* Mode B: the callbacks, in any interleaving                              *)

NextB ==
    \/ OutputBegin
    \/ ScaleStep
    \/ ChannelWrite
    \/ OutputReturn
    \/ SetMute
    \/ SetVolume

BridgeInit ==
    /\ InitA
    /\ InitB
    /\ hoist \in BOOLEAN
    /\ feed = {}
    /\ limit = 0
    /\ fail_budget = 0
    /\ timer = U32(0, 0)
    /\ rx = ChannelHandle
    /\ probes = 0

BridgeSpec == BridgeInit /\ [][NextB]_vars

\* the callbacks of both directions; init_pdm_rx checks no return value,
\* so rx may still be NULL when the callbacks are registered
NextDuplex == NextB \/ InputCb

DuplexInit ==
    /\ InitA
    /\ InitB
    /\ hoist = FALSE
    /\ feed = {}
    /\ limit = 0
    /\ fail_budget = 0
    /\ timer = U32(0, 0)
    /\ rx \in {NULL, ChannelHandle}
    /\ probes = 0

DuplexSpec == DuplexInit /\ [][NextDuplex]_vars

----------------------------------------------------------------------------
(* The DC filter alone: from dc_est = 0, one constant block again and      *)
(* again, then probe blocks                                                *)

NextDc == FilterFeed \/ FilterProbe

DcInit ==
    /\ InitA
    /\ InitB
    /\ hoist = FALSE
    /\ feed \in {{ConstBlock(c)} : c \in DcOffsets}
    /\ limit = MaxDcBlocks
    /\ fail_budget = 0
    /\ timer = U32(0, 0)
    /\ rx = ChannelHandle
    /\ probes = MaxProbes

DcSpec == DcInit /\ [][NextDc]_vars

----------------------------------------------------------------------------
(* Reading a packet back, as a receiver would                              *)

U16At(b, i) == b[i] + 256 * b[i + 1]

U32At(b, i) == U32(U16At(b, i + 2), U16At(b, i))

S16At(b, i) == IF U16At(b, i) >= 32768 THEN U16At(b, i) - 65536 ELSE U16At(b, i)

Last(q) == q[Len(q)]

Ids(q) == [i \in 1..Len(q) |-> q[i].data]

\* the seq field of the i-th packet written to the transport
SeqAt(i) == U32At(serial_out[i].bytes, 4)

\* what was framed for the i-th packet pushed
FrameOf(i) == framed[pushed[i].frame]

\* CRC-16/CCITT as a bit-serial division: polynomial 0x1021, initial value
\* 0xFFFF, most significant bit first, no final XOR
RefCrcBit(crc, bit) ==
    IF ((crc \div 32768) + bit) % 2 = 1
    THEN BitXorBits((crc * 2) % 65536, 4129)
    ELSE (crc * 2) % 65536

RefCrcByte(crc, byte) ==
    RefCrcBit(RefCrcBit(RefCrcBit(RefCrcBit(RefCrcBit(RefCrcBit(RefCrcBit(
    RefCrcBit(crc, (byte \div 128) % 2), (byte \div 64) % 2),
    (byte \div 32) % 2), (byte \div 16) % 2), (byte \div 8) % 2),
    (byte \div 4) % 2), (byte \div 2) % 2), byte % 2)

RECURSIVE RefCrcRange(_, _, _, _)
RefCrcRange(crc, data, lo, hi) ==
    IF lo > hi THEN crc
    ELSE IF lo = hi THEN RefCrcByte(crc, data[lo])
    ELSE LET left == RefCrcRange(crc, data, lo, (lo + hi) \div 2)
         IN  IF left >= 0
             THEN RefCrcRange(left, data, ((lo + hi) \div 2) + 1, hi)
             ELSE left

RefCrc(data, n) == RefCrcRange(65535, data, 1, n)

----------------------------------------------------------------------------
(* C1: sequence numbers of the packets written to the transport            *)

\* C1 as stated: the seq fields of the packets written to the serial
\* transport are 0, 1, 2, ... with no gaps, also when malloc fails for some
\* blocks.
C1_SeqNoGaps ==
    \A i \in 1..Len(serial_out) :
        SeqAt(i) = (IF i = 1 THEN U32(0, 0) ELSE Add32(SeqAt(i - 1), 1))

\* C1 as amended: each written packet's seq is the previous one's + 1 + the
\* number of blocks framed in between whose packet was dropped because
\* malloc failed (counting from 0 for the first); nothing else skips a
\* sequence number.
C1_SeqSkipsOnlyDrops ==
    \A i \in 1..Len(serial_out) :
        LET start == IF i = 1 THEN U32(0, 0) ELSE Add32(SeqAt(i - 1), 1)
        IN  \E g \in 0..Cardinality(dropped) :
              /\ SeqAt(i) = Add32(start, g)
              /\ \A j \in 0..(g - 1) : Add32(start, j) \in dropped

\* a packet written after a dropped one, and a packet written right after
\* another
C1_Witness ==
    /\ Len(serial_out) >= 3
    /\ \E i \in 2..Len(serial_out) : SeqAt(i) = Add32(SeqAt(i - 1), 2)
    /\ \E i \in 2..Len(serial_out) : SeqAt(i) = Add32(SeqAt(i - 1), 1)

----------------------------------------------------------------------------
(* C2: the queue is FIFO                                                   *)

\* C2: the packets written to the transport, then the one loop() holds
\* unwritten, then the queued ones, are exactly the packets pushed, in the
\* order pushed, each once.
C2_Fifo ==
    /\ Ids(serial_out)
         \o (IF loop_pc = "write" THEN <<loop_pkt.data>> ELSE <<>>)
         \o Ids(tx_queue) = Ids(pushed)
    /\ \A i, j \in 1..Len(pushed) :
          i < j => /\ pushed[i].data # pushed[j].data
                   /\ pushed[i].frame < pushed[j].frame
    /\ \A i \in 1..Len(serial_out) : serial_out[i].bytes = FrameOf(i).bytes

\* several packets written while several more wait behind them
C2_Witness ==
    /\ Len(serial_out) >= 3
    /\ Len(tx_queue) >= 3
    /\ loop_pc = "write"

----------------------------------------------------------------------------
(* C3: backpressure                                                        *)

\* a step taken while the capture task is inside xQueueSend: either the task
\* stays there with its packet and all its state untouched, or the queue
\* had room and the packet is appended
C3_Step ==
    cap_pc = "send" =>
        \/ /\ cap_pc' = "send"
           /\ pkt' = pkt
           /\ heap'[pkt.data] = heap[pkt.data]
           /\ UNCHANGED <<seq, dc_est, sample_buf, tx_buf, cycles, framed>>
        \/ /\ Len(tx_queue) < QUEUE_LENGTH
           /\ tx_queue' = Append(tx_queue, pkt)
           /\ heap' = heap

\* C3: the queue never holds more than 16 packets, and while it holds 16
\* the capture task stays in its push, reading, filtering and framing
\* nothing, with the packet intact, until loop() has popped an item.
C3_Backpressure ==
    /\ [](Len(tx_queue) <= QUEUE_LENGTH)
    /\ [][C3_Step]_vars

\* the capture task waits in xQueueSend with the queue full
C3_Witness ==
    /\ cap_pc = "send"
    /\ Len(tx_queue) = QUEUE_LENGTH

----------------------------------------------------------------------------
(* C4: every pushed packet is written                                      *)

\* C4: when loop() keeps running, the k-th packet pushed is eventually the
\* k-th packet written, in full, and no packet is written twice.  Pushes
\* and writes are never undone (second conjunct), so "once packet k is
\* pushed it is eventually written" is the same as "again and again,
\* packet k is not pushed yet or has been written" (third conjunct).
C4_EventuallyWritten ==
    /\ [](/\ Len(serial_out) <= Len(pushed)
          /\ \A i \in 1..Len(serial_out) :
                /\ serial_out[i].data = pushed[i].data
                /\ serial_out[i].bytes = FrameOf(i).bytes)
    /\ [][/\ Len(pushed') >= Len(pushed)
          /\ SubSeq(pushed', 1, Len(pushed)) = pushed
          /\ Len(serial_out') >= Len(serial_out)
          /\ SubSeq(serial_out', 1, Len(serial_out)) = serial_out]_vars
    /\ \A k \in 1..MaxBlocks :
          []<>(Len(pushed) < k \/ Len(serial_out) >= k)

\* every packet of a run that filled the queue has been written
C4_Witness ==
    /\ Len(pushed) > QUEUE_LENGTH
    /\ Len(serial_out) = Len(pushed)

----------------------------------------------------------------------------
(* C5: the length field and the total length                               *)

\* C5: for every packet written, the length field is twice the number of
\* samples framed, and the packet is 11 + payload length + 2 bytes long, as
\* is the length in its queue slot.
C5_Lengths ==
    /\ \A i \in 1..Len(serial_out) :
          LET b == serial_out[i].bytes
          IN  /\ U16At(b, 2) = 2 * Len(FrameOf(i).samples)
              /\ Len(b) = 11 + U16At(b, 2) + 2
    /\ \A i \in 1..Len(tx_queue) :
          LET b == heap[tx_queue[i].data]
          IN  /\ tx_queue[i].length = 11 + U16At(b, 2) + 2
              /\ Len(b) = tx_queue[i].length

\* the packet of a 3-byte read (one sample and a half) has been written
C5_Witness ==
    /\ cycles = 1
    /\ bytes_read = 3
    /\ Len(serial_out) = 1
    /\ Len(serial_out[1].bytes) = 11 + 2 + 2

----------------------------------------------------------------------------
(* C6: the CRC trailer                                                     *)

\* C6: the packet just written carries, in its last two bytes (low byte
\* first), the CRC-16/CCITT of its first 11 + payload length bytes, and is
\* byte for byte the buffer that was framed.
C6_CrcValidates ==
    loop_pc = "free" =>
        LET b == Last(serial_out).bytes
            n == 11 + U16At(b, 2)
        IN  /\ Len(b) = n + 2
            /\ RefCrc(b, n) = U16At(b, n + 1)
            /\ b = FrameOf(Len(serial_out)).bytes

\* a packet of a full block has just been written
C6_Witness ==
    /\ loop_pc = "free"
    /\ Len(serial_out) = 2
    /\ U16At(Last(serial_out).bytes, 2) = 2 * SAMPLE_BUFFER_SIZE

----------------------------------------------------------------------------
(* C7: the header layout                                                   *)

\* C7: every packet written starts with 0xA6, the payload length, the
\* sequence number and the timestamp, little-endian, followed by the
\* samples in order, low byte first.
C7_Layout ==
    \A i \in 1..Len(serial_out) :
        LET b == serial_out[i].bytes
            f == FrameOf(i)
        IN  /\ b[1] = 166
            /\ U16At(b, 2) = 2 * Len(f.samples)
            /\ U32At(b, 4) = f.seq
            /\ U32At(b, 8) = f.now
            /\ \A k \in 1..Len(f.samples) : S16At(b, 10 + 2 * k) = f.samples[k]

\* the spec's example: 1024 samples, seq 0, timestamp 12345
C7_Witness ==
    /\ Len(serial_out) >= 1
    /\ SubSeq(serial_out[1].bytes, 1, 11)
         = <<166, 0, 8, 0, 0, 0, 0, 57, 48, 0, 0>>

----------------------------------------------------------------------------
(* C8: gain scaling                                                        *)

\* the gain 10^(volume_db / 20) behind each factor the host can set here,
\* as a fraction: 1 for 0 dB, 0.5012 for -6 dB, 0.00316 for -50 dB
ExactGain(factor) ==
    CASE factor = 100 -> [num |-> 1, den |-> 1]
      [] factor = 50  -> [num |-> 5012, den |-> 10000]
      [] factor = 0   -> [num |-> 316, den |-> 100000]

\* n / d rounded to the nearest integer
RoundDiv(n, d) ==
    IF n >= 0 THEN (2 * n + d) \div (2 * d) ELSE -((d - 2 * n) \div (2 * d))

Clamp16(v) == IF v > 32767 THEN 32767 ELSE IF v < -32768 THEN -32768 ELSE v

\* C8 as stated: with mute clear, every sample s, negative or not, is
\* rendered as clamp(round(s x g), -32768, 32767) for the gain g in force;
\* at unity gain it is rendered unchanged.
C8_LinearSaturatingGain ==
    \A i \in 1..Len(trace) :
        LET t == trace[i]
            g == ExactGain(t.gain)
        IN  ~t.flag => t.out = Clamp16(RoundDiv(t.in * g.num, g.den))

----------------------------------------------------------------------------
(* C9: mute                                                                *)

----------------------------------------------------------------------------
(* C10: the output callback consumes the whole buffer                      *)

\* C10: what the hardware has accepted is always the first
\* total_bytes_written bytes of the buffer, never more than len; each write
\* offers exactly the bytes not yet accepted; and the callback returns
\* ESP_OK only once all len bytes were accepted, each once and in order.
C10_FullyConsumed ==
    /\ total_bytes_written <= len
    /\ rendered = ReadBytes(buf, 0, total_bytes_written)
    /\ offer.size > 0 =>
          /\ offer.offset + offer.size = len
          /\ offer.offset <= total_bytes_written
    /\ ret = "ESP_OK" =>
          /\ total_bytes_written = len
          /\ rendered = buf

\* a 3-byte buffer returned after partial writes, the last one of the
\* single byte left at offset 2
C10_Witness ==
    /\ ret = "ESP_OK"
    /\ len = 3
    /\ offer = [offset |-> 2, size |-> 1]
    /\ rendered = buf

----------------------------------------------------------------------------
(* C11: the render path uses only completely written GainState values     *)

\* C11: under any interleaving of set_mute / set_volume with the output
\* callback, the mute value and the gain value used for each sample (and
\* the values held in is_muted, volume_factor and in the callback's
\* registers) are values some handler call stored completely, or the
\* initial values: never a torn or intermediate one.
C11_WholeGainState ==
    /\ is_muted \in written.mute
    /\ volume_factor \in written.gain
    /\ out_pc # "idle" =>
          /\ mute_seen \in written.mute
          /\ factor_seen \in written.gain
    /\ \A i \in 1..Len(trace) :
          /\ trace[i].muted \in written.mute
          /\ trace[i].factor \in written.gain

\* within one callback the first sample was scaled with the initial gain
\* and the second with a gain and a mute flag stored in between
C11_Witness ==
    /\ ~hoist
    /\ Len(trace) = 2
    /\ trace[1].factor = 100 /\ ~trace[1].muted
    /\ trace[2].factor = 50 /\ trace[2].muted

----------------------------------------------------------------------------
(* C12: each packet buffer has one owner at a time and is released once    *)

\* the buffers the capture task holds (allocated, push not completed), the
\* queued ones, and the one loop() holds (popped, not yet released)
CaptureHeld == IF cap_pc = "send" THEN {pkt.data} ELSE {}

QueueHeld == {tx_queue[i].data : i \in 1..Len(tx_queue)}

LoopHeld == IF loop_pc \in {"write", "free"} THEN {loop_pkt.data} ELSE {}

\* a step, seen from the buffers
C12_Step ==
    \* a buffer's bytes are those the capture task copied into it before
    \* the push; nobody writes it afterwards
    /\ \A a \in (DOMAIN heap) \cap (DOMAIN heap') : heap'[a] = heap[a]
    \* a new buffer is the capture task's, and not yet in the queue
    /\ \A a \in (DOMAIN heap') \ (DOMAIN heap) :
          /\ cap_pc = "alloc" /\ cap_pc' = "send" /\ pkt'.data = a
          /\ a \notin QueueHeld' \cup LoopHeld'
          /\ a \notin {pushed[i].data : i \in 1..Len(pushed)}
    \* a push hands over the buffer the task holds
    /\ pushed' # pushed =>
          /\ Last(pushed').data = pkt.data
          /\ CaptureHeld = {pkt.data} /\ CaptureHeld' = {}
    \* the transport is given bytes of the buffer loop() popped
    /\ serial_out' # serial_out =>
          /\ Last(serial_out').data = loop_pkt.data
          /\ LoopHeld = {loop_pkt.data}
          /\ loop_pkt.data \in DOMAIN heap
          /\ Last(serial_out').bytes = heap[loop_pkt.data]
    \* a buffer is released by loop(), which holds it and has written it
    /\ \A a \in (DOMAIN heap) \ (DOMAIN heap') :
          /\ loop_pc = "free" /\ loop_pkt.data = a
          /\ Last(serial_out).data = a
          /\ a \notin CaptureHeld' \cup QueueHeld' \cup LoopHeld'

\* C12: a buffer is written only by the capture task before the push, is
\* not touched by the capture task after it, is read only by loop() after
\* the pop, and is released exactly once, after the transport write: the
\* live buffers are exactly the held ones, no buffer has two holders, loop()
\* never writes or frees a released buffer, and a written buffer is
\* released as soon as loop() moves on.
C12_OwnedOnce ==
    /\ [](/\ DOMAIN heap = CaptureHeld \cup QueueHeld \cup LoopHeld
          /\ Cardinality(DOMAIN heap) =
                Cardinality(CaptureHeld) + Len(tx_queue)
                + Cardinality(LoopHeld)
          /\ \A i \in 1..Len(serial_out) :
                serial_out[i].data \in DOMAIN heap =>
                    i = Len(serial_out) /\ loop_pc = "free"
          /\ Cardinality({serial_out[i].data : i \in 1..Len(serial_out)})
                = Len(serial_out))
    /\ [][C12_Step]_vars

\* a buffer has been through its whole life while others are queued and
\* the capture task holds a fresh one
C12_Witness ==
    /\ Len(serial_out) >= 2
    /\ loop_pc = "receive"
    /\ Len(tx_queue) >= 2
    /\ cap_pc = "send"
    /\ serial_out[1].data \notin DOMAIN heap

----------------------------------------------------------------------------
(* C13: a failed or empty read                                             *)

\* C13: a cycle whose i2s_read returns an error or zero bytes frames and
\* enqueues nothing and leaves the sequence counter, the DC estimate and
\* the queue as they were; the task is back at the read.
C13_FailedReadSkipsCycle ==
    [][(/\ cap_pc = "read"
        /\ <<err, bytes_read>>' # <<err, bytes_read>>
        /\ (err' # "ESP_OK" \/ bytes_read' = 0))
       => /\ cap_pc' = "read"
          /\ UNCHANGED <<seq, dc_est, tx_queue, framed, pushed, tx_buf,
                         sample_buf, heap, mallocs, dropped, cycles>>]_vars

\* a read has just failed after two blocks were framed, with packets queued
C13_Witness ==
    /\ cap_pc = "read"
    /\ err = "ESP_FAIL"
    /\ bytes_read = 0
    /\ Len(framed) = 2
    /\ seq = U32(0, 2)
    /\ Len(tx_queue) >= 1

----------------------------------------------------------------------------
(* C14: a failed allocation                                                *)

\* C14: when malloc fails, that one packet and no other is dropped: the
\* step pushes nothing, allocates nothing, leaves the queue, loop() and the
\* filter state alone and puts the task back at the read; every block
\* framed is either dropped by such a step, pushed, or the one in progress,
\* so the blocks after a drop are still framed and handed on.
C14_DropsOnePacket ==
    /\ [](/\ Len(framed) = Len(pushed) + Cardinality(dropped)
                           + (IF cap_pc \in {"alloc", "send"} THEN 1 ELSE 0)
          /\ \A i \in 1..Len(pushed) : FrameOf(i).seq \notin dropped
          /\ \A i, j \in 1..Len(pushed) :
                i < j => pushed[i].frame < pushed[j].frame)
    /\ [][(cap_pc = "alloc" /\ cap_pc' \notin {"alloc", "send"})
          => /\ cap_pc' = "read"
             /\ dropped' = dropped \cup {Last(framed).seq}
             /\ Last(framed).seq \notin dropped
             /\ UNCHANGED <<tx_queue, pushed, heap, mallocs, loop_pc,
                            loop_pkt, serial_out, framed, dc_est, seq,
                            cycles>>]_vars

\* the first block was dropped, and the two blocks after it were written
C14_Witness ==
    /\ dropped = {U32(0, 0)}
    /\ Len(serial_out) = 2
    /\ SeqAt(1) = U32(0, 1)
    /\ SeqAt(2) = U32(0, 2)
    /\ heap = <<>>

----------------------------------------------------------------------------
(* C15: hardware I/O failures and the host                                 *)

\* C15 as stated, for the two callbacks of mode B: a hardware write that
\* fails or accepts nothing is retried with the same bytes, and neither the
\* output callback nor the input callback returns a failure status to the
\* host because a hardware read or write failed.
C15_NeverSurfaced ==
    /\ ret \in {"none", "ESP_OK"}
    /\ out_pc = "idle" /\ ret = "ESP_OK" => rendered = buf
    /\ rx # NULL => in_ret \in {"none", "ESP_OK"}

----------------------------------------------------------------------------
(* C16: a zero-mean block                                                  *)

Abs(x) == IF x < 0 THEN -x ELSE x

\* the last call of the filter was given a block whose samples sum to 0
ZeroMeanCall == Len(filt.a) > 0 /\ SumRange(filt.a, 1, Len(filt.a)) = 0

\* by how much the last call changed the estimate
EstimateChange == Abs(dc_est - filt.dc)

----------------------------------------------------------------------------
(* C17: convergence on a constant offset                                   *)

\* the mean of the block the filter has just put out
OutMean == BlockMean(sample_buf, 0)

\* the constant of the run's feed block
FeedOffset == (CHOOSE b \in feed : TRUE).data[1]

\* the number of binary digits of x > 0
RECURSIVE BitLen(_)
BitLen(x) == IF x = 0 THEN 0 ELSE 1 + BitLen(x \div 2)

\* blocks within which the output mean has reached 0 for offset c
ConvergenceBound(c) ==
    2^LERP_SHIFT * (IF BitLen(Abs(c)) = 0 THEN 1 ELSE BitLen(Abs(c)))

\* C17: from DCEstimate = 0, filtering a block of constant c again and
\* again, the magnitude of the output block mean never increases from one
\* block to the next, and it is 0 from block 2^LERP_SHIFT * bitlength(|c|)
\* on at the latest.
C17_Converges ==
    /\ []((probes = MaxProbes /\ cycles >= ConvergenceBound(FeedOffset))
          => OutMean = 0)
    /\ [][(probes' = MaxProbes /\ cycles >= 1 /\ cycles' = cycles + 1)
          => Abs(OutMean') <= Abs(OutMean)]_vars

\* the run on the offset -32768 has reached its bound of 16384 blocks: the
\* input is still -32768 and the output is 0
C17_Witness ==
    /\ probes = MaxProbes
    /\ FeedOffset = -32768
    /\ cycles = ConvergenceBound(-32768)
    /\ filt.a = ConstBlock(-32768).data
    /\ sample_buf = [i \in 1..DcBlockLen |-> 0]
    /\ dc_est < 0

----------------------------------------------------------------------------
(* C18: empty blocks                                                       *)

\* C18 as stated: after every successful read of 1 to 2048 bytes the filter
\* is given at least one sample, so sum / n never divides by zero (the task
\* does not trap) and every packet framed or written carries at least one
\* sample.
C18_NeverEmptyBlock ==
    /\ (err = "ESP_OK" /\ bytes_read >= 1) => SamplesRead(bytes_read) >= 1
    /\ cap_pc # "panic"
    /\ \A i \in 1..Len(framed) : Len(framed[i].samples) >= 1
    /\ \A i \in 1..Len(serial_out) : U16At(serial_out[i].bytes, 2) >= 2

----------------------------------------------------------------------------
(* C19: how many buffers are alive                                         *)

\* C19: in every interleaving of the two tasks the buffers allocated and
\* not yet released number at most QUEUE_LENGTH + 2 = 18: the queued ones,
\* one the capture task holds between malloc and the end of its push, one
\* loop() holds between the pop and free.
C19_LiveBuffersBounded ==
    /\ Cardinality(DOMAIN heap) <= QUEUE_LENGTH + 2
    /\ Cardinality(DOMAIN heap) <= Len(tx_queue) + 2

\* 18 buffers are alive: 16 queued, one being pushed, one being written
C19_Witness ==
    /\ Cardinality(DOMAIN heap) = QUEUE_LENGTH + 2
    /\ Len(tx_queue) = QUEUE_LENGTH
    /\ cap_pc = "send"
    /\ loop_pc = "write"

----------------------------------------------------------------------------
(* C20: the fixed-point arithmetic of the filter                           *)

\* the values of an int32_t
INT32_MAX == 2^30 - 1 + 2^30
INT32_MIN == -INT32_MAX - 1
FitsInt32(x) == INT32_MIN <= x /\ x <= INT32_MAX

\* the Q15 images of the least and the greatest int16 sample
DcLow  == -32768 * 2^15
DcHigh == 32767 * 2^15

\* the Q15 mean of the block the last call of the filter was given
LastMeanQ15 == MeanQ15(BlockMean(filt.a, 0))

\* C20: starting from DCEstimate = 0, after every block DCEstimate lies
\* between -32768*2^15 and 32767*2^15, each call moves it toward the
\* block's Q15 mean and never past it, and the intermediate values
\* meanQ15 - DCEstimate, (sample << 15) - DCEstimate and
\* (sample << 15) - DCEstimate + 2^14 all fit a signed 32-bit integer.
C20_ArithmeticNeverWraps ==
    /\ DcLow <= dc_est /\ dc_est <= DcHigh
    /\ DcLow <= filt.dc /\ filt.dc <= DcHigh
    /\ FitsInt32(filt.diff)
    /\ \A y \in filt.ys : FitsInt32(y) /\ FitsInt32(y - 2^14)
    /\ Len(filt.a) > 0 =>
          /\ filt.diff = LastMeanQ15 - filt.dc
          /\ filt.dc <= LastMeanQ15 =>
                filt.dc <= dc_est /\ dc_est <= LastMeanQ15
          /\ filt.dc >= LastMeanQ15 =>
                LastMeanQ15 <= dc_est /\ dc_est <= filt.dc

\* the estimate has settled on the least value and a block of the greatest
\* samples arrives: the difference is 2^31 - 2^15, the largest there is
C20_Witness ==
    /\ filt.dc = DcLow
    /\ filt.a = ConstBlock(32767).data
    /\ filt.diff = DcHigh - DcLow
    /\ dc_est > filt.dc
    /\ \E y \in filt.ys : y > 2^30
============================================================================
